---- MODULE Spec2Model ----
(***************************************************************************)
(* Signal engines of the trading bot: the RSI+ADX strategy                 *)
(* (strategies/rsi_strategy.py) and the mean-reversion strategy            *)
(* (strategies/mean_reversion_strategy.py).                                *)
(*                                                                         *)
(* Numbers.  The source computes in IEEE doubles.  The model computes in   *)
(* exact rationals <<n, d>> (d > 0, lowest terms), with <<0, 0>> for NaN   *)
(* and <<1, 0>>, <<-1, 0>> for +inf, -inf, the values a numpy division by  *)
(* zero produces.  Prices are whole numbers of price units.                *)
(***************************************************************************)
EXTENDS Integers, Sequences, FiniteSets, TLC

VARIABLES
    base_period,      \* RSIStrategy.base_period
    min_order_size,   \* RSIStrategy.min_order_size
    call,             \* the last RSIStrategy.generate_signal call: inputs, locals, result
    ref,              \* a call the caller kept, and whether a different call came after it
    mr_call,          \* the last MeanReversionStrategy.generate_signal call
    series,           \* candle window handed to the indicator functions
    ind               \* the last direct calculate_rsi / calculate_adx call

vars == <<base_period, min_order_size, call, ref, mr_call, series, ind>>

-----------------------------------------------------------------------------
(* Exact arithmetic standing for the doubles of the source.                *)

Abs(x) == IF x < 0 THEN -x ELSE x

RECURSIVE GCD(_, _)
GCD(a, b) == IF b = 0 THEN a ELSE GCD(b, a % b)

NaN == <<0, 0>>
PosInf == <<1, 0>>
NegInf == <<-1, 0>>
Zero == <<0, 1>>

R(n) == <<n, 1>>

\* n/d in lowest terms, d # 0
Rat(n, d) ==
    LET g == GCD(Abs(n), Abs(d))
    IN  IF d > 0 THEN <<n \div g, d \div g>> ELSE <<(-n) \div g, (-d) \div g>>

IsNaN(a) == a = NaN
IsFinite(a) == a[2] # 0
Sign(a) == IF a[1] > 0 THEN 1 ELSE IF a[1] < 0 THEN -1 ELSE 0

RNeg(a) == <<-a[1], a[2]>>
RAbs(a) == <<Abs(a[1]), a[2]>>

RAdd(a, b) ==
    IF IsFinite(a) /\ IsFinite(b)
    THEN LET g == GCD(a[2], b[2])
         IN  Rat(a[1] * (b[2] \div g) + b[1] * (a[2] \div g), (a[2] \div g) * b[2])
    ELSE IF IsNaN(a) \/ IsNaN(b) THEN NaN
    ELSE IF IsFinite(a) THEN b
    ELSE IF IsFinite(b) \/ a = b THEN a
    ELSE NaN

RSub(a, b) == RAdd(a, RNeg(b))

RMul(a, b) ==
    IF IsFinite(a) /\ IsFinite(b)
    THEN LET g1 == GCD(Abs(a[1]), b[2])
             g2 == GCD(Abs(b[1]), a[2])
         IN  <<(a[1] \div g1) * (b[1] \div g2), (a[2] \div g2) * (b[2] \div g1)>>
    ELSE IF IsNaN(a) \/ IsNaN(b) \/ Sign(a) = 0 \/ Sign(b) = 0 THEN NaN
    ELSE <<Sign(a) * Sign(b), 0>>

RDiv(a, b) ==
    IF IsNaN(a) \/ IsNaN(b) THEN NaN
    ELSE IF IsFinite(a) /\ IsFinite(b)
    THEN IF b[1] = 0
         THEN <<Sign(a), 0>>                      \* 0/0 = nan, x/0 = +-inf
         ELSE RMul(a, IF b[1] > 0 THEN <<b[2], b[1]>> ELSE <<-b[2], -b[1]>>)
    ELSE IF IsFinite(a) THEN Zero
    ELSE IF IsFinite(b) THEN <<Sign(a) * (IF b[1] < 0 THEN -1 ELSE 1), 0>>
    ELSE NaN

\* Order of two finite rationals by their continued fractions: -1, 0 or 1.
RECURSIVE CmpFrac(_, _, _, _)
CmpFrac(n1, d1, n2, d2) ==
    LET q1 == n1 \div d1
        q2 == n2 \div d2
        r1 == n1 % d1
        r2 == n2 % d2
    IN  IF q1 # q2 THEN (IF q1 < q2 THEN -1 ELSE 1)
        ELSE IF r1 = 0 /\ r2 = 0 THEN 0
        ELSE IF r1 = 0 THEN -1
        ELSE IF r2 = 0 THEN 1
        ELSE -CmpFrac(d1, r1, d2, r2)

RLess(a, b) ==
    IF IsNaN(a) \/ IsNaN(b) THEN FALSE
    ELSE IF IsFinite(a) /\ IsFinite(b) THEN CmpFrac(a[1], a[2], b[1], b[2]) < 0
    ELSE IF IsFinite(a) THEN b = PosInf
    ELSE IF IsFinite(b) THEN a = NegInf
    ELSE a = NegInf /\ b = PosInf

RGreater(a, b) == RLess(b, a)

RMax(a, b) == IF RLess(a, b) THEN b ELSE a
RMin(a, b) == IF RLess(b, a) THEN b ELSE a

RECURSIVE SumTo(_, _)
SumTo(xs, k) == IF k = 0 THEN Zero ELSE RAdd(SumTo(xs, k - 1), xs[k])

\* np.mean(xs[:k]) for 0 < k <= len(xs)
MeanFirst(xs, k) == RDiv(SumTo(xs, k), R(k))

\* np.mean(xs[-k:]), the last k values or all of them when there are fewer
MeanLast(xs, k) ==
    LET n == Len(xs)
        m == IF k < n THEN k ELSE n
        tail == [i \in 1..m |-> xs[n - m + i]]
    IN  RDiv(SumTo(tail, m), R(m))

-----------------------------------------------------------------------------
(* RSIStrategy.calculate_rsi                                               *)

\* np.diff(closes)
Deltas(closes) == [i \in 1..(Len(closes) - 1) |-> closes[i + 1] - closes[i]]

Gains(deltas) == [i \in DOMAIN deltas |-> IF deltas[i] > 0 THEN R(deltas[i]) ELSE Zero]

Losses(deltas) == [i \in DOMAIN deltas |-> IF deltas[i] < 0 THEN R(-deltas[i]) ELSE Zero]

\* the zero-loss value: 100.0 if avg_gain > 0 else 50.0
ZeroLossRsi(avg_gain) == IF RGreater(avg_gain, Zero) THEN R(100) ELSE R(50)

\* rs = avg_gain / avg_loss; rsi = 100 - (100 / (1 + rs))
RsiOf(avg_gain, avg_loss) ==
    LET rs == RDiv(avg_gain, avg_loss)
    IN  RSub(R(100), RDiv(R(100), RAdd(R(1), rs)))

\* (avg * (period - 1) + x) / period
Wilder(avg, x, period) == RDiv(RAdd(RMul(avg, R(period - 1)), x), R(period))

\* the loop over range(period, len(gains)); i is the 1-based index of the delta
RECURSIVE RsiSmooth(_, _, _, _, _, _, _)
RsiSmooth(i, avg_gain, avg_loss, rsi, gains, losses, period) ==
    IF i > Len(gains) THEN rsi
    ELSE LET ag == Wilder(avg_gain, gains[i], period)
             al == Wilder(avg_loss, losses[i], period)
             r  == IF al = Zero THEN ZeroLossRsi(ag) ELSE RsiOf(ag, al)
         IN  RsiSmooth(i + 1, ag, al, r, gains, losses, period)

calculate_rsi(closes, period) ==
    IF Len(closes) < period + 1 THEN R(50)
    ELSE LET gains    == Gains(Deltas(closes))
             losses   == Losses(Deltas(closes))
             avg_gain == MeanFirst(gains, period)
             avg_loss == MeanFirst(losses, period)
         IN  IF avg_loss = Zero THEN ZeroLossRsi(avg_gain)
             ELSE RsiSmooth(period + 1, avg_gain, avg_loss,
                            RsiOf(avg_gain, avg_loss), gains, losses, period)

-----------------------------------------------------------------------------
(* RSIStrategy.calculate_adx                                               *)

Max2(a, b) == IF a < b THEN b ELSE a
Min2(a, b) == IF b < a THEN b ELSE a

\* tr = max(high - low, abs(high - prev_close), abs(low - prev_close))
TrueRange(cur, prev) ==
    Max2(cur.high - cur.low,
         Max2(Abs(cur.high - prev.close), Abs(cur.low - prev.close)))

\* plus = up_move if up_move > down_move and up_move > 0 else 0
PlusDM(cur, prev) ==
    LET up_move   == cur.high - prev.high
        down_move == prev.low - cur.low
    IN  IF up_move > down_move /\ up_move > 0 THEN up_move ELSE 0

\* minus = down_move if down_move > up_move and down_move > 0 else 0
MinusDM(cur, prev) ==
    LET up_move   == cur.high - prev.high
        down_move == prev.low - cur.low
    IN  IF down_move > up_move /\ down_move > 0 THEN down_move ELSE 0

TrValues(klines) == [i \in 1..(Len(klines) - 1) |-> R(TrueRange(klines[i + 1], klines[i]))]
PlusDMs(klines)  == [i \in 1..(Len(klines) - 1) |-> R(PlusDM(klines[i + 1], klines[i]))]
MinusDMs(klines) == [i \in 1..(Len(klines) - 1) |-> R(MinusDM(klines[i + 1], klines[i]))]

\* np.clip bounds of the directional indices
ClipLo == R(-100000)
ClipHi == R(100000)

\* np.clip(x, lo, hi)
Clip(x, lo, hi) == RMin(RMax(x, lo), hi)

\* Mutation: the floor atr = max(atr, 1e-10) left out, so a zero ATR divides.
DirectionalIndexNoFloor(dm, atr) == Clip(RDiv(RMul(R(100), dm), atr), ClipLo, ClipHi)

\* atr = max(atr, 1e-10); di = np.clip(100 * dm / atr, -1e5, 1e5).
\* 1e-10 lies below every positive ATR the model's prices produce, so the floor
\* acts exactly when atr = 0; the floored ATR is carried as 0 and the division
\* by 1e-10 is resolved here: 0 stays 0, anything else leaves the clip range.
DirectionalIndex(dm, atr) ==
    IF atr = Zero
    THEN IF dm = Zero THEN Zero ELSE IF RGreater(dm, Zero) THEN ClipHi ELSE ClipLo
    ELSE Clip(RDiv(RMul(R(100), dm), atr), ClipLo, ClipHi)

\* dx = 0 if plus_di + minus_di == 0 else 100 * abs(plus_di - minus_di) / (plus_di + minus_di)
DX(plus_di, minus_di) ==
    IF RAdd(plus_di, minus_di) = Zero THEN Zero
    ELSE RDiv(RMul(R(100), RAbs(RSub(plus_di, minus_di))), RAdd(plus_di, minus_di))

\* the loop over range(period, len(tr_values)); i is the 1-based index
RECURSIVE AdxSmooth(_, _, _, _, _, _, _, _, _)
AdxSmooth(i, atr, plus_di, minus_di, adx_values, tr_values, plus_dm, minus_dm, period) ==
    IF i > Len(tr_values) THEN adx_values
    ELSE LET a  == Wilder(atr, tr_values[i], period)
             p  == DirectionalIndex(Wilder(plus_di, plus_dm[i], period), a)
             m  == DirectionalIndex(Wilder(minus_di, minus_dm[i], period), a)
         IN  AdxSmooth(i + 1, a, p, m, Append(adx_values, DX(p, m)),
                       tr_values, plus_dm, minus_dm, period)

\* adx_values at the end of calculate_adx, for a window that passed both guards
AdxValues(klines, period) ==
    LET tr_values == TrValues(klines)
        plus_dm   == PlusDMs(klines)
        minus_dm  == MinusDMs(klines)
        atr       == MeanFirst(tr_values, period)
        plus_di   == DirectionalIndex(MeanFirst(plus_dm, period), atr)
        minus_di  == DirectionalIndex(MeanFirst(minus_dm, period), atr)
    IN  AdxSmooth(period + 1, atr, plus_di, minus_di, <<DX(plus_di, minus_di)>>,
                  tr_values, plus_dm, minus_dm, period)

calculate_adx(klines, period) ==
    IF Len(klines) < period + 1 THEN Zero
    ELSE IF Len(klines) - 1 < period THEN Zero
    ELSE LET adx_values == AdxValues(klines, period)
             adx == IF adx_values # <<>> THEN MeanLast(adx_values, period) ELSE Zero
         IN  IF IsNaN(adx) THEN Zero ELSE adx

-----------------------------------------------------------------------------
(* RSIStrategy.generate_signal                                             *)

\* a kline, with the keys the strategies read
Candle(h, l, c) == [high |-> h, low |-> l, close |-> c]

\* closes = [kline['close'] for kline in klines]
Closes(klines) == [i \in DOMAIN klines |-> klines[i].close]

\* volatility=None
None == <<>>

\* int(x): truncation toward zero
IntTrunc(x) == IF x[1] >= 0 THEN x[1] \div x[2] ELSE -((-x[1]) \div x[2])

\* Mutation: the sign of the volatility flipped, int(self.base_period * (1 + volatility)).
AdaptPeriodSignSlip(bp, volatility) ==
    [period |-> IF volatility # None
                THEN Max2(5, Min2(20, IntTrunc(RMul(R(bp), RAdd(R(1), volatility)))))
                ELSE bp,
     base_period |-> bp]

\* Mutation: the adapted period stored in self.base_period.
AdaptPeriodStored(bp, volatility) ==
    LET p == IF volatility # None
             THEN Max2(5, Min2(20, IntTrunc(RMul(R(bp), RSub(R(1), volatility)))))
             ELSE bp
    IN  [period |-> p, base_period |-> p]

\* period = self.base_period
\* if volatility is not None:
\*     period = int(self.base_period * (1 - volatility)); period = max(5, min(20, period))
\* The statement assigns the local period and leaves self.base_period alone.
AdaptPeriod(bp, volatility) ==
    [period |-> IF volatility # None
                THEN Max2(5, Min2(20, IntTrunc(RMul(R(bp), RSub(R(1), volatility)))))
                ELSE bp,
     base_period |-> bp]

\* Mutation: the lower clamp left out, min(80, 70 - (volatility * 10)).
OverboughtThresholdNoFloor(volatility) ==
    RMin(R(80), RSub(R(70), RMul(volatility, R(10))))

\* max(50, min(80, 70 - (volatility * 10)))
OverboughtThreshold(volatility) ==
    RMax(R(50), RMin(R(80), RSub(R(70), RMul(volatility, R(10)))))

\* Mutation: the upper clamp of the overbought line, max(20, min(80, 30 + (volatility * 10))).
OversoldThresholdWide(volatility) ==
    RMax(R(20), RMin(R(80), RAdd(R(30), RMul(volatility, R(10)))))

\* max(20, min(50, 30 + (volatility * 10)))
OversoldThreshold(volatility) ==
    RMax(R(20), RMin(R(50), RAdd(R(30), RMul(volatility, R(10)))))

\* max(10, min(30, 15 + (volatility * 10)))
AdxThreshold(volatility) ==
    RMax(R(10), RMin(R(30), RAdd(R(15), RMul(volatility, R(10)))))

\* signal = 'hold'; if rsi > overbought and adx > adx_threshold: 'sell'
\* elif rsi < oversold and adx > adx_threshold: 'buy'
IndicatorSignal(rsi, adx, overbought, oversold, adx_threshold) ==
    IF RGreater(rsi, overbought) /\ RGreater(adx, adx_threshold) THEN "sell"
    ELSE IF RLess(rsi, oversold) /\ RGreater(adx, adx_threshold) THEN "buy"
    ELSE "hold"

\* quantity = 0.1 / closes[-1]
Quantity(last_close) == RDiv(<<1, 10>>, R(last_close))

\* Mutation: the veto at the minimum too, quantity <= self.min_order_size.
MinOrderVetoAtMinimum(signal, last_close, mos) ==
    IF signal # "hold" /\ ~RLess(mos, Quantity(last_close)) THEN "hold" ELSE signal

\* if signal != 'hold': if quantity < self.min_order_size: signal = 'hold'
MinOrderVeto(signal, last_close, mos) ==
    IF signal # "hold" /\ RLess(Quantity(last_close), mos) THEN "hold" ELSE signal

\* A generate_signal call: its arguments, the locals the last log line prints,
\* and what the caller gets: a signal, or "raise" when an exception leaves the call.
BlankCall ==
    [stage |-> "none", path |-> "none", volatility |-> None, klines |-> <<>>,
     period |-> 0, rsi |-> Zero, adx |-> Zero,
     overbought |-> Zero, oversold |-> Zero, adx_threshold |-> Zero,
     indicator_signal |-> "hold", outcome |-> "none"]

\* The body of generate_signal after the await, on the klines the source returned.
SignalBody(c, klines, bp, mos) ==
    IF klines = <<>>
    THEN [c EXCEPT !.stage = "returned", !.path = "no_klines", !.outcome = "hold"]
    ELSE IF Len(klines) < bp + 1
    THEN [c EXCEPT !.stage = "returned", !.path = "not_enough", !.klines = klines,
                   !.outcome = "hold"]
    ELSE LET closes == Closes(klines)
             period == AdaptPeriod(bp, c.volatility).period
             rsi    == calculate_rsi(closes, period)
             adx    == calculate_adx(klines, 14)
         IN  IF c.volatility = None
             THEN \* volatility * 10 raises TypeError; except Exception: return 'hold'
                  [c EXCEPT !.stage = "returned", !.path = "exception", !.klines = klines,
                            !.period = period, !.rsi = rsi, !.adx = adx, !.outcome = "hold"]
             ELSE LET ob  == OverboughtThreshold(c.volatility)
                      os  == OversoldThreshold(c.volatility)
                      at  == AdxThreshold(c.volatility)
                      sig == IndicatorSignal(rsi, adx, ob, os, at)
                  IN  [c EXCEPT !.stage = "returned", !.path = "decided",
                                !.klines = klines, !.period = period,
                                !.rsi = rsi, !.adx = adx,
                                !.overbought = ob, !.oversold = os, !.adx_threshold = at,
                                !.indicator_signal = sig,
                                !.outcome = MinOrderVeto(sig, closes[Len(closes)], mos)]

-----------------------------------------------------------------------------
(* MeanReversionStrategy.generate_signal                                   *)

\* self.lookback_period = 20
lookback_period == 20

\* klines[-n:]
LastN(klines, n) ==
    IF Len(klines) <= n THEN klines
    ELSE [i \in 1..n |-> klines[Len(klines) - n + i]]

\* sum(closes) / len(closes)
Mean(closes) ==
    RDiv(SumTo([i \in DOMAIN closes |-> R(closes[i])], Len(closes)), R(Len(closes)))

\* Mutation: the sample variance, divided by len(closes) - 1.
SampleVariance(closes, mean) ==
    LET sq == [i \in DOMAIN closes |->
                 RMul(RSub(R(closes[i]), mean), RSub(R(closes[i]), mean))]
    IN  RDiv(SumTo(sq, Len(closes)), R(Len(closes) - 1))

\* sum((x - mean) ** 2 for x in closes) / len(closes); std is its square root
Variance(closes, mean) ==
    LET sq == [i \in DOMAIN closes |->
                 RMul(RSub(R(closes[i]), mean), RSub(R(closes[i]), mean))]
    IN  RDiv(SumTo(sq, Len(closes)), R(Len(closes)))

\* threshold = 2.0 * (1 + symbol_volatility)
Threshold(symbol_volatility) == RMul(R(2), RAdd(R(1), symbol_volatility))

\* x > threshold * variance ** 0.5, decided on the squares
ExceedsBand(x, threshold, variance) ==
    IF ~RLess(threshold, Zero)
    THEN RGreater(x, Zero)
            /\ RGreater(RMul(x, x), RMul(RMul(threshold, threshold), variance))
    ELSE IF ~RLess(x, Zero)
    THEN RGreater(x, Zero) \/ RGreater(variance, Zero)
    ELSE RLess(RMul(x, x), RMul(RMul(threshold, threshold), variance))

\* upper_bound = mean + threshold * std; lower_bound = mean - threshold * std
\* if price > upper_bound: "sell" elif price < lower_bound: "buy" else: "hold"
BandSignal(price, mean, variance, threshold) ==
    IF ExceedsBand(RSub(R(price), mean), threshold, variance) THEN "sell"
    ELSE IF ExceedsBand(RSub(mean, R(price)), threshold, variance) THEN "buy"
    ELSE "hold"

BlankMR ==
    [stage |-> "none", path |-> "none", klines |-> <<>>, volatility |-> None,
     mean |-> Zero, variance |-> Zero, outcome |-> "none"]

\* generate_signal up to the volatility query, on the klines the source returned
MRWindowStep(klines) ==
    IF Len(klines) < lookback_period
    THEN [BlankMR EXCEPT !.stage = "returned", !.path = "not_enough",
                         !.klines = klines, !.outcome = "hold"]
    ELSE LET closes == Closes(LastN(klines, lookback_period))
             mean   == Mean(closes)
         IN  [BlankMR EXCEPT !.stage = "awaiting_volatility", !.klines = klines,
                             !.mean = mean, !.variance = Variance(closes, mean)]

\* generate_signal from the volatility the analyzer returned to its return
MRDecideStep(c, symbol_volatility) ==
    [c EXCEPT !.stage = "returned", !.path = "decided",
              !.volatility = symbol_volatility,
              !.outcome = BandSignal(c.klines[Len(c.klines)].close, c.mean, c.variance,
                                     Threshold(symbol_volatility))]

-----------------------------------------------------------------------------
(* RSIStrategy.generate_signal called by its caller.                       *)

\* The candle windows the KlineSource hands out: a price level with up to two
\* moves in it, high and low one unit around the close.
MaxCandles == 15

VolTenths == {-15, -1, 0, 1, 3, 5, 10, 25}
Volatilities == {Rat(n, 10) : n \in VolTenths} \cup {None}

EventAt1 == {3}
EventAt2 == {8, 15}
Moves == {-2, -1, 0, 1, 2}
Levels == {98, 100, 103}

Window(n, level, at1, d1, at2, d2) ==
    [i \in 1..n |->
        LET c == level + (IF i >= at1 THEN d1 ELSE 0) + (IF i >= at2 THEN d2 ELSE 0)
        IN  Candle(c + 1, c - 1, c)]

KlineFamily ==
    {<<>>} \cup
    {Window(n, level, at1, d1, at2, d2) :
        n \in 14..MaxCandles, level \in Levels,
        at1 \in EventAt1, d1 \in Moves, at2 \in EventAt2, d2 \in Moves}

\* The calls a caller keeps to compare a later signal with.
ProbeFamily ==
    {Window(15, 100, 3, 2, 8, -1), Window(15, 100, 3, -2, 8, 1)}

NoInd == [fn |-> "none", period |-> 0, out |-> Zero, adx_values |-> <<>>]

InitEngine ==
    /\ base_period = 14
    /\ min_order_size = <<1, 1000>>
    /\ call = BlankCall
    /\ ref = [kept |-> BlankCall, between |-> FALSE]
    /\ mr_call = BlankMR

Init ==
    /\ InitEngine
    /\ series = <<>>
    /\ ind = NoInd

\* generate_signal is entered with its arguments and suspends in
\* await self.market_data.get_klines(...)
Invoke ==
    /\ call.stage # "awaiting_klines"
    /\ \E volatility \in Volatilities :
          call' = [BlankCall EXCEPT !.stage = "awaiting_klines", !.volatility = volatility]
    /\ UNCHANGED <<base_period, min_order_size, ref, mr_call, series, ind>>

\* get_klines returns and the rest of generate_signal runs to its return
Resume ==
    /\ call.stage = "awaiting_klines"
    /\ \E klines \in KlineFamily :
          /\ call' = SignalBody(call, klines, base_period, min_order_size)
          /\ base_period' = IF klines # <<>> /\ Len(klines) >= base_period + 1
                            THEN AdaptPeriod(base_period, call.volatility).base_period
                            ELSE base_period
          /\ ref' = IF ref.kept.stage = "returned"
                        /\ (klines # ref.kept.klines \/ call.volatility # ref.kept.volatility)
                     THEN [ref EXCEPT !.between = TRUE]
                     ELSE ref
    /\ UNCHANGED <<min_order_size, mr_call, series, ind>>

\* get_klines raises; except Exception: return 'hold'
ResumeFetchError ==
    /\ call.stage = "awaiting_klines"
    /\ call' = [call EXCEPT !.stage = "returned", !.path = "fetch_error", !.outcome = "hold"]
    /\ UNCHANGED <<base_period, min_order_size, ref, mr_call, series, ind>>

\* the caller keeps what one call returned
Remember ==
    /\ call.stage = "returned"
    /\ ref.kept.stage = "none"
    /\ call.klines \in ProbeFamily
    /\ ref' = [kept |-> call, between |-> FALSE]
    /\ UNCHANGED <<base_period, min_order_size, call, mr_call, series, ind>>

Next ==
    \/ Invoke
    \/ Resume
    \/ ResumeFetchError
    \/ Remember

Spec == Init /\ [][Next]_vars

-----------------------------------------------------------------------------
(* MeanReversionStrategy.generate_signal called by its caller.            *)

MaxMRCandles == 21

MRVolTenths == {-15, -10, 0, 5, 10, 25}
MRVolatilities == {Rat(n, 10) : n \in MRVolTenths}

MRSpikes == {-100, -10, -1, 0, 1, 10, 100}
MRMoves == {-4, 0, 4}

\* a price level with a move after the first candle and a spike on the last one
MRFamily ==
    {<<>>} \cup
    {Window(n, 100, 2, d1, n, d2) : n \in 19..MaxMRCandles, d1 \in MRMoves, d2 \in MRSpikes}

\* get_klines returns; the call runs to its early return or to the volatility query
MRFetch ==
    /\ mr_call.stage # "awaiting_volatility"
    /\ \E klines \in MRFamily : mr_call' = MRWindowStep(klines)
    /\ UNCHANGED <<base_period, min_order_size, call, ref, series, ind>>

\* get_klines raises; except Exception: logger.error(...); raise
MRFetchError ==
    /\ mr_call.stage # "awaiting_volatility"
    /\ mr_call' = [BlankMR EXCEPT !.stage = "returned", !.path = "fetch_error",
                                  !.outcome = "raise"]
    /\ UNCHANGED <<base_period, min_order_size, call, ref, series, ind>>

\* analyze_volatility returns; the call runs to its return
MRAnalyze ==
    /\ mr_call.stage = "awaiting_volatility"
    /\ \E v \in MRVolatilities : mr_call' = MRDecideStep(mr_call, v)
    /\ UNCHANGED <<base_period, min_order_size, call, ref, series, ind>>

\* analyze_volatility raises; except Exception: logger.error(...); raise
MRAnalyzeError ==
    /\ mr_call.stage = "awaiting_volatility"
    /\ mr_call' = [mr_call EXCEPT !.stage = "returned", !.path = "volatility_error",
                                  !.outcome = "raise"]
    /\ UNCHANGED <<base_period, min_order_size, call, ref, series, ind>>

NextMR == MRFetch \/ MRFetchError \/ MRAnalyze \/ MRAnalyzeError

SpecMR == Init /\ [][NextMR]_vars

-----------------------------------------------------------------------------
(* The indicator functions called directly on a candle window.             *)

MaxLen == 5        \* longest window handed to the indicator functions
MaxPeriod == 3     \* largest period handed to the indicator functions

IndCandles == {Candle(10, 10, 10), Candle(12, 10, 11), Candle(10, 8, 9)}

\* The exact fractions of the ADX recurrence square in size at every smoothing
\* step: a window whose prices move goes through at most this many of them.
MaxAdxSteps == 0

\* high = low = close, the same on every candle
ConstantPrice(klines) ==
    \A i \in DOMAIN klines :
        klines[i].high = klines[1].close /\ klines[i].low = klines[1].close
            /\ klines[i].close = klines[1].close

Windows == UNION {[1..n -> IndCandles] : n \in 0..MaxLen}

CallRSI(period) ==
    /\ ind' = [fn |-> "rsi", period |-> period,
               out |-> calculate_rsi(Closes(series), period), adx_values |-> <<>>]
    /\ UNCHANGED <<base_period, min_order_size, call, ref, mr_call, series>>

CallADX(period) ==
    /\ ConstantPrice(series) \/ Len(series) - 1 - period <= MaxAdxSteps
    /\ ind' = [fn |-> "adx", period |-> period,
               out |-> calculate_adx(series, period),
               adx_values |-> IF Len(series) < period + 1 THEN <<>>
                              ELSE AdxValues(series, period)]
    /\ UNCHANGED <<base_period, min_order_size, call, ref, mr_call, series>>

InitInd ==
    /\ InitEngine
    /\ series \in Windows
    /\ ind = NoInd

NextInd ==
    \/ \E period \in 1..MaxPeriod : CallRSI(period)
    \/ \E period \in 1..MaxPeriod : CallADX(period)

SpecInd == InitInd /\ [][NextInd]_vars


-----------------------------------------------------------------------------
(* Properties.                                                             *)

Signals == {"buy", "sell", "hold"}

\* C1: a generate_signal call of the RSI+ADX engine that got at least 15 closes
\* and no volatility surfaces an error to its caller instead of returning a signal.
C1_MissingVolatilityRaises ==
    (call.stage = "returned" /\ call.volatility = None /\ Len(call.klines) >= 15)
        => call.outcome = "raise"

\* C2: in both engines a generate_signal call always ends with one of 'buy',
\* 'sell', 'hold', whatever failed inside it; nothing is raised to the caller.
C2_NoFailurePropagates ==
    /\ call.stage = "returned" => call.outcome \in Signals
    /\ mr_call.stage = "returned" => mr_call.outcome \in Signals

\* round(x): to the nearest integer, a tie to the even one
RoundNearest(x) ==
    LET f    == x[1] \div x[2]
        frac == RSub(x, R(f))
    IN  IF RLess(frac, <<1, 2>>) THEN f
        ELSE IF RGreater(frac, <<1, 2>>) THEN f + 1
        ELSE IF f % 2 = 0 THEN f ELSE f + 1

ClampInt(x, lo, hi) == IF x < lo THEN lo ELSE IF x > hi THEN hi ELSE x

\* 14 * (1 - v) of a call with a volatility
PeriodProduct == RMul(R(14), RSub(R(1), call.volatility))

\* C3 as stated: the RSI period of a call with a volatility is
\* clamp(round(14 * (1 - v)), 5, 20).
C3_PeriodIsRounded ==
    call.path = "decided" => call.period = ClampInt(RoundNearest(PeriodProduct), 5, 20)

\* C3 amended: the RSI period of a call with a volatility is
\* clamp(t, 5, 20) for the integer t that 14 * (1 - v) truncates to: t has the
\* sign of the product and |t| <= |product| < |t| + 1.
C3_PeriodIsTruncated ==
    call.path = "decided" =>
        \E t \in -40..40 :
            /\ ~RLess(RAbs(PeriodProduct), R(Abs(t)))
            /\ RLess(RAbs(PeriodProduct), R(Abs(t) + 1))
            /\ t = 0 \/ (t > 0) = (PeriodProduct[1] > 0)
            /\ call.period = ClampInt(t, 5, 20)

\* volatility 0.1: the product is 12.6 and the period 12
C3_Witness ==
    call.path = "decided" /\ call.volatility = <<1, 10>> /\ call.period = 12

\* the last close of the call's window
LastClose == call.klines[Len(call.klines)].close

\* 0.1 / lastClose is not below 0.001 (prices are positive): 1000 * 1 >= 10 * lastClose
Tradable == 1000 >= 10 * LastClose

\* C4: once rsi, adx and the thresholds are computed, the call returns 'sell'
\* exactly when rsi > overbought and adx > adx_threshold and the quantity is not
\* below 0.001, 'buy' exactly when rsi < oversold and adx > adx_threshold and the
\* quantity is not below 0.001, and 'hold' in every other case.
C4_SignalDecision ==
    call.path = "decided" =>
        LET strong == RGreater(call.adx, call.adx_threshold)
            high   == RGreater(call.rsi, call.overbought)
            low    == RLess(call.rsi, call.oversold)
        IN  /\ LastClose > 0
            /\ call.outcome = "sell" <=> (high /\ strong /\ Tradable)
            /\ call.outcome = "buy" <=> (low /\ strong /\ Tradable)
            /\ call.outcome \in Signals
            /\ call.indicator_signal = "hold" => call.outcome = "hold"

\* an indicator-level sell whose quantity is below 0.001 comes back as 'hold'
C4_Witness ==
    /\ call.path = "decided"
    /\ call.indicator_signal = "sell"
    /\ call.outcome = "hold"
    /\ LastClose > 100

\* x clamped to [lo, hi], said by cases
IsClampOf(y, x, lo, hi) ==
    /\ ~RLess(y, lo)
    /\ ~RLess(hi, y)
    /\ \/ y = x
       \/ y = lo /\ RLess(x, lo)
       \/ y = hi /\ RLess(hi, x)

\* C5: for every volatility v the thresholds are clamp(70 - 10v, 50, 80),
\* clamp(30 + 10v, 20, 50) and clamp(15 + 10v, 10, 30), so they lie in [50, 80],
\* [20, 50] and [10, 30], and oversold <= overbought.
C5_ThresholdBounds ==
    call.path = "decided" =>
        LET tenv == RMul(R(10), call.volatility)
        IN  /\ IsClampOf(call.overbought, RSub(R(70), tenv), R(50), R(80))
            /\ IsClampOf(call.oversold, RAdd(R(30), tenv), R(20), R(50))
            /\ IsClampOf(call.adx_threshold, RAdd(R(15), tenv), R(10), R(30))
            /\ ~RLess(call.overbought, call.oversold)

\* volatility 2.5: all three clamps act
C5_Witness ==
    /\ call.path = "decided"
    /\ call.volatility = <<5, 2>>
    /\ call.overbought = R(50)
    /\ call.oversold = R(50)
    /\ call.adx_threshold = R(30)

\* The mean-reversion decision in whole numbers.  With c the last 20 closes,
\* S their sum, Q the sum of their squares and p the latest close:
\* p - mean = (20p - S) / 20, std = sqrt(20Q - S^2) / 20, threshold = (10 + 10v) / 5.
RECURSIVE IntSum(_, _)
IntSum(xs, k) == IF k = 0 THEN 0 ELSE IntSum(xs, k - 1) + xs[k]

MRLast20 == [i \in 1..20 |-> mr_call.klines[Len(mr_call.klines) - 20 + i].close]
MRSum == IntSum(MRLast20, 20)
MRSquares == IntSum([i \in 1..20 |-> MRLast20[i] * MRLast20[i]], 20)
MRSpread == 20 * MRSquares - MRSum * MRSum
MRPrice == mr_call.klines[Len(mr_call.klines)].close
MRTenV == (10 * mr_call.volatility[1]) \div mr_call.volatility[2]

\* x / 5 > ((10 + 10v) / 5) * sqrt(spread), for x five times a distance from the mean
BeyondBand(x) ==
    LET b == 10 + MRTenV
    IN  IF b >= 0 THEN x > 0 /\ x * x > b * b * MRSpread
        ELSE IF x >= 0 THEN x > 0 \/ MRSpread > 0
        ELSE x * x < b * b * MRSpread

C7_AdxShortOrConstantIsZero ==
    ind.fn = "adx" =>
        /\ Len(series) < ind.period + 1 => ind.out = Zero
        /\ ConstantPrice(series) =>
            /\ ind.out = Zero
            /\ \A i \in DOMAIN ind.adx_values : ind.adx_values[i] = Zero

\* a constant-price window that went through the smoothing loop
C7_Witness ==
    /\ ind.fn = "adx"
    /\ ConstantPrice(series)
    /\ Len(series) >= ind.period + 3
    /\ Len(ind.adx_values) >= 3
    /\ ind.out = Zero

\* C8: a call that gets the candle window and the volatility of a call the
\* caller kept returns the signal that call returned, whatever was called between.
C8_SameInputsSameSignal ==
    (call.stage = "returned" /\ call.path # "fetch_error"
        /\ ref.kept.stage = "returned"
        /\ call.klines = ref.kept.klines /\ call.volatility = ref.kept.volatility)
        => call.outcome = ref.kept.outcome

\* the kept call returned a trade, a different call followed, then the same inputs again
C8_Witness ==
    /\ call.stage = "returned"
    /\ ref.kept.stage = "returned"
    /\ ref.between
    /\ call.klines = ref.kept.klines
    /\ call.volatility = ref.kept.volatility
    /\ call.outcome = "buy"

\* The RSI of the final Wilder step: the seed averages smoothed through every
\* later delta, the zero-loss value re-evaluated at each step.
FinalWilderRsi(closes, period) ==
    LET gains    == Gains(Deltas(closes))
        losses   == Losses(Deltas(closes))
        avg_gain == MeanFirst(gains, period)
        avg_loss == MeanFirst(losses, period)
        seed     == IF avg_loss = Zero THEN ZeroLossRsi(avg_gain)
                    ELSE RsiOf(avg_gain, avg_loss)
    IN  RsiSmooth(period + 1, avg_gain, avg_loss, seed, gains, losses, period)

\* C9: on period + 1 closes or more calculate_rsi returns the RSI of the final
\* Wilder smoothing step; a zero average loss in the seed window does not end
\* the computation while later deltas exist.
C9_RsiIsFinalWilderStep ==
    (ind.fn = "rsi" /\ Len(series) >= ind.period + 1)
        => ind.out = FinalWilderRsi(Closes(series), ind.period)

\* C10: whenever calculate_rsi gave the neutral 50.0 the call returns 'hold',
\* for every volatility and every ADX.
C10_NeutralRsiHolds ==
    (call.stage = "returned" /\ call.path \in {"decided", "exception"}
        /\ call.rsi = R(50))
        => call.outcome = "hold"

\* 15 closes, adaptive period 15: RSI is 50.0 while ADX is above its threshold
C10_Witness ==
    /\ call.path = "decided"
    /\ Len(call.klines) < call.period + 1
    /\ call.rsi = R(50)
    /\ RGreater(call.adx, call.adx_threshold)
    /\ call.outcome = "hold"

====
